---- MODULE Spec2Model ----
(***************************************************************************)
(* Model of the AI Docker image analyzer backend:                          *)
(*   - DockerManager.get_image_metadata and get_image_files                *)
(*     (src/docker_client.py),                                             *)
(*   - the FastAPI request handlers that call them (src/main.py).          *)
(* One request is followed from the handler's entry to its HTTP response.  *)
(* The Docker daemon, the registry and the AI analyzer are the             *)
(* environment: each call to them returns one of the outcomes the          *)
(* library can produce, chosen nondeterministically.                       *)
(***************************************************************************)
EXTENDS Integers, Sequences, FiniteSets, TLC

(***************************************************************************)
(* Bounds of the model.                                                    *)
(***************************************************************************)
\* longest archive (number of tar members) that is enumerated
MaxMembers == 2
\* largest declared size of a file member
MaxSize == 1

\* default of the max_depth parameter of get_image_files
DefaultMaxDepth == 5

(***************************************************************************)
(* Strings.  A Python str is a sequence of one-character strings, so that  *)
(* strip and split act on the characters as they do in the code.           *)
(***************************************************************************)
\* code points of the characters that occur in the member names below
Ord(ch) ==
    CASE ch = "." -> 46
      [] ch = "/" -> 47
      [] ch = "B" -> 66
      [] ch = "a" -> 97
      [] ch = "d" -> 100
      [] ch = "x" -> 120
      [] ch = "y" -> 121

\* Python's str < str: lexicographic on code points, a proper prefix is smaller
RECURSIVE StrLess(_, _)
StrLess(s, t) ==
    IF t = <<>> THEN FALSE
    ELSE IF s = <<>> THEN TRUE
    ELSE IF Head(s) = Head(t) THEN StrLess(Tail(s), Tail(t))
    ELSE Ord(Head(s)) < Ord(Head(t))

\* the characters named by the argument of member.name.strip("./")
StripChars == {".", "/"}

RECURSIVE LStrip(_)
LStrip(s) ==
    IF s # <<>> /\ Head(s) \in StripChars THEN LStrip(Tail(s)) ELSE s

RECURSIVE RStrip(_)
RStrip(s) ==
    IF s # <<>> /\ s[Len(s)] \in StripChars
    THEN RStrip(SubSeq(s, 1, Len(s) - 1))
    ELSE s

\* str.strip("./"): drops every leading and trailing "." and "/"
Strip(s) == RStrip(LStrip(s))

\* str.split("/"): never empty, "" splits to [""]
RECURSIVE Split(_)
Split(s) ==
    IF \E i \in 1..Len(s) : s[i] = "/"
    THEN LET i == CHOOSE k \in 1..Len(s) :
                      s[k] = "/" /\ \A j \in 1..(k - 1) : s[j] # "/"
         IN  <<SubSeq(s, 1, i - 1)>> \o Split(SubSeq(s, i + 1, Len(s)))
    ELSE <<s>>

\* path_parts of a tar member
path_parts(member) == Split(Strip(member.name))

\* the members skipped by "if not path_parts or path_parts == ['']: continue"
IsRootMember(member) ==
    path_parts(member) = <<>> \/ path_parts(member) = << <<>> >>

\* TooDeep with the limit off by one
TooDeepOffByOne(member, depth) == Len(path_parts(member)) > depth + 1

\* the members skipped by "if len(path_parts) > max_depth: continue"
TooDeep(member, depth) == Len(path_parts(member)) > depth

(***************************************************************************)
(* The tree: a Python dict is the sequence of its values in insertion      *)
(* order; the key of a value is its "name".                                *)
(***************************************************************************)
HasKey(level, part) == \E k \in 1..Len(level) : level[k].name = part

\* the node created at lines 84-90 for segment i of the member's path
NewNode(member, parts, i) ==
    LET last   == (i = Len(parts))
        is_dir == IF last THEN member.isdir ELSE TRUE
    IN  [name     |-> parts[i],
         type     |-> IF is_dir THEN "directory" ELSE "file",
         size     |-> IF last THEN member.size ELSE 0,
         children |-> <<>>]

\* the walk of lines 81-91 from segment i on, in the dict `level`
RECURSIVE InsertPath(_, _, _, _)
InsertPath(level, member, parts, i) ==
    LET part   == parts[i]
        level1 == IF HasKey(level, part)
                  THEN level
                  ELSE Append(level, NewNode(member, parts, i))
    IN  IF i = Len(parts)
        THEN level1
        ELSE [k \in 1..Len(level1) |->
                 IF level1[k].name = part
                 THEN [level1[k] EXCEPT
                          !.children = InsertPath(@, member, parts, i + 1)]
                 ELSE level1[k]]

\* one iteration of "for member in tar.getmembers()"
FoldMember(t, member, depth) ==
    IF IsRootMember(member) THEN t
    ELSE IF TooDeep(member, depth) THEN t
    ELSE InsertPath(t, member, path_parts(member), 1)

(***************************************************************************)
(* FileNode and dict_to_nodes.  Optional[List[FileNode]] is the set of at  *)
(* most one list: None is the empty set.                                   *)
(***************************************************************************)
None == {}
Some(v) == {v}
TheList(opt) == CHOOSE v \in opt : TRUE

\* KeyLess with the key reduced to the name
KeyLessNameOnly(a, b) == StrLess(a.name, b.name)

\* the sort key of line 103 compared as Python compares tuples:
\* False < True on the first component, then the names
KeyLess(a, b) ==
    LET ka == (a.type # "directory")
        kb == (b.type # "directory")
    IN  IF ka # kb THEN kb ELSE StrLess(a.name, b.name)

\* sorted(): stable, so a node goes after every node whose key is not larger
RECURSIVE InsertSorted(_, _)
InsertSorted(sorted, n) ==
    IF sorted = <<>> THEN <<n>>
    ELSE IF KeyLess(n, Head(sorted)) THEN <<n>> \o sorted
    ELSE <<Head(sorted)>> \o InsertSorted(Tail(sorted), n)

RECURSIVE Sorted(_)
Sorted(nodes) ==
    IF nodes = <<>> THEN <<>>
    ELSE InsertSorted(Sorted(SubSeq(nodes, 1, Len(nodes) - 1)),
                      nodes[Len(nodes)])

RECURSIVE dict_to_nodes(_)
dict_to_nodes(d) ==
    Sorted([k \in 1..Len(d) |->
              [name     |-> d[k].name,
               type     |-> d[k].type,
               size     |-> d[k].size,
               children |-> IF d[k].children # <<>>
                            THEN Some(dict_to_nodes(d[k].children))
                            ELSE None]])

(***************************************************************************)
(* The environment: tar members, and the outcomes of the calls to the      *)
(* Docker SDK and to the AI analyzer.                                      *)
(***************************************************************************)
\* member names of the export: a root entry, plain and "./"-prefixed
\* entries, a nested entry, entries of max_depth and max_depth + 1
\* segments, a dot-file ("./.x") and a name ending in a dot ("x/y.")
MemberNames ==
    { <<".">>,
      <<"x">>,
      <<".", "/", "x", "/">>,
      <<"x", "/", "y">>,
      <<".", "/", ".", "x">>,
      <<"x", "/", "y", ".">>,
      <<"a">>,
      <<"B">>,
      <<"d", "/", "d", "/", "d", "/", "d", "/", "d">>,
      <<"d", "/", "d", "/", "d", "/", "d", "/", "d", "/", "d">> }

\* a TarInfo: name, isdir(), size (a directory member declares size 0)
Members ==
    { m \in [name : MemberNames, isdir : BOOLEAN, size : 0..MaxSize] :
        m.isdir => m.size = 0 }

Archives == UNION { [1..n -> Members] : n \in 0..MaxMembers }

\* what a call into the Docker SDK returns or raises
OK            == [cls |-> "ok",            status |-> 0]
ImageNotFound == [cls |-> "ImageNotFound", status |-> 404]
NotFound      == [cls |-> "APIError",      status |-> 404]
ServerError   == [cls |-> "APIError",      status |-> 500]
ConnError     == [cls |-> "Exception",     status |-> 0]

\* what the manager or a handler raises
NoExc           == [cls |-> "none",          status |-> 0]
GenericExc      == [cls |-> "Exception",     status |-> 0]
HTTPException(code) == [cls |-> "HTTPException", status |-> code]

MetadataEndpoints == {"/analyze", "/generate-dockerfile", "/chat", "/optimize"}
Endpoints == MetadataEndpoints \cup {"/files"}

VARIABLES
    client,      \* DockerManager.client: "DockerClient" or "None"
    imageLocal,  \* the daemon has the image locally
    pc,          \* position of the request
    endpoint,    \* the handler serving the request
    calls,       \* the SDK calls made so far, in order, with their outcomes
    raised,      \* what the manager call or the handler body raised
    response,    \* HTTP status of the response, 0 before it is sent
    container,   \* get_image_files: the temporary container, or "None"
    strm,        \* get_image_files: members still to come on the export stream
    file_obj,    \* get_image_files: members whose bytes are in the BytesIO
    nread,       \* get_image_files: iterations of the chunk loop so far
    members,     \* get_image_files: tar.getmembers()
    idx,         \* get_image_files: members folded into the tree
    tree,        \* get_image_files: the dict of dicts
    result,      \* get_image_files: the list dict_to_nodes returned
    pending      \* get_image_files: what the try block returned or raised

\* The locals of get_image_files live while its frame does: they are
\* empty again once the try block has raised or the call has been left.
vars == <<client, imageLocal, pc, endpoint, calls, raised, response, container,
          strm, file_obj, nread, members, idx, tree, result, pending>>

filesVars == <<container, strm, file_obj, nread, members, idx, tree, result,
               pending>>

max_depth == DefaultMaxDepth

Call(op, res) == [op |-> op, res |-> res]

\* DockerManager.__init__ has run: the client is set, or None when
\* docker.from_env() raised
Init ==
    /\ client \in {"DockerClient", "None"}
    /\ imageLocal \in BOOLEAN
    /\ pc = "idle"
    /\ endpoint = "none"
    /\ calls = <<>>
    /\ raised = NoExc
    /\ response = 0
    /\ container = "None"
    /\ strm = <<>>
    /\ file_obj = <<>>
    /\ nread = 0
    /\ members = <<>>
    /\ idx = 0
    /\ tree = <<>>
    /\ result = <<>>
    /\ pending = "none"

\* a request arrives at one of the handlers
Request ==
    /\ pc = "idle"
    /\ \E ep \in Endpoints :
         /\ endpoint' = ep
         /\ pc' = IF ep = "/files" THEN "files" ELSE "metadata"
    /\ UNCHANGED <<client, imageLocal, calls, raised, response>>
    /\ UNCHANGED filesVars

(***************************************************************************)
(* DockerManager.get_image_metadata                                        *)
(***************************************************************************)
\* docker.errors.ImageNotFound is a subclass of docker.errors.APIError
IsAPIError(e) == e.cls \in {"APIError", "ImageNotFound"}

\* MetadataExcept without the status test of line 49
MetadataExceptNoStatusTest(e) ==
    IF e.cls = "ImageNotFound" THEN HTTPException(404)
    ELSE GenericExc

\* the except clauses of lines 46-53 applied to what the try block raised
MetadataExcept(e) ==
    IF e.cls = "ImageNotFound" THEN HTTPException(404)
    ELSE IF IsAPIError(e)
         THEN IF e.status = 404 THEN HTTPException(404) ELSE GenericExc
    ELSE GenericExc

\* images.get(image_name) as the daemon answers it
GetOutcomes ==
    IF imageLocal THEN {OK, ServerError, ConnError}
    ELSE {ImageNotFound, NotFound, ServerError, ConnError}

PullOutcomes == {OK, ImageNotFound, NotFound, ServerError, ConnError}

HistoryOutcomes == {OK, ServerError, ConnError}

\* lines 16-17
MetadataEnter ==
    /\ pc = "metadata"
    /\ IF client = "None"
       THEN raised' = GenericExc /\ pc' = "except"
       ELSE raised' = raised /\ pc' = "get"
    /\ UNCHANGED <<client, imageLocal, endpoint, calls, response>>
    /\ UNCHANGED filesVars

\* lines 21-24: the lookup inside the inner try
MetadataGet ==
    /\ pc = "get"
    /\ \E r \in GetOutcomes :
         /\ calls' = Append(calls, Call("images.get", r))
         /\ IF r = OK THEN raised' = raised /\ pc' = "get_again"
            ELSE IF r.cls = "ImageNotFound"
                 THEN raised' = raised /\ pc' = "pull"
            ELSE raised' = MetadataExcept(r) /\ pc' = "except"
    /\ UNCHANGED <<client, imageLocal, endpoint, response>>
    /\ UNCHANGED filesVars

\* line 25
MetadataPull ==
    /\ pc = "pull"
    /\ \E r \in PullOutcomes :
         /\ calls' = Append(calls, Call("images.pull", r))
         /\ IF r = OK
            THEN imageLocal' = TRUE /\ raised' = raised /\ pc' = "get_again"
            ELSE /\ imageLocal' = imageLocal
                 /\ raised' = MetadataExcept(r)
                 /\ pc' = "except"
    /\ UNCHANGED <<client, endpoint, response>>
    /\ UNCHANGED filesVars

\* lines 27-28
MetadataGetAgain ==
    /\ pc = "get_again"
    /\ \E r \in GetOutcomes :
         /\ calls' = Append(calls, Call("images.get", r))
         /\ IF r = OK THEN raised' = raised /\ pc' = "history"
            ELSE raised' = MetadataExcept(r) /\ pc' = "except"
    /\ UNCHANGED <<client, imageLocal, endpoint, response>>
    /\ UNCHANGED filesVars

\* lines 29-45: image.history(), then the DockerMetadata is returned
MetadataHistory ==
    /\ pc = "history"
    /\ \E r \in HistoryOutcomes :
         /\ calls' = Append(calls, Call("image.history", r))
         /\ IF r = OK THEN raised' = NoExc /\ pc' = "analyzer"
            ELSE raised' = MetadataExcept(r) /\ pc' = "except"
    /\ UNCHANGED <<client, imageLocal, endpoint, response>>
    /\ UNCHANGED filesVars

(***************************************************************************)
(* DockerManager.get_image_files                                           *)
(***************************************************************************)
\* containers.create(image_name) does not pull: it needs the image locally
CreateOutcomes ==
    IF imageLocal THEN {OK, ServerError, ConnError}
    ELSE {ImageNotFound, ServerError, ConnError}

ArchiveOutcomes == {OK, NotFound, ServerError, ConnError}

\* lines 56-57
FilesEnter ==
    /\ pc = "files"
    /\ IF client = "None"
       THEN raised' = GenericExc /\ pc' = "except"
       ELSE raised' = raised /\ pc' = "create"
    /\ UNCHANGED <<client, imageLocal, endpoint, calls, response>>
    /\ UNCHANGED filesVars

\* line 62; a failure goes to the except clause of lines 107-108
FilesCreate ==
    /\ pc = "create"
    /\ \E r \in CreateOutcomes :
         /\ calls' = Append(calls, Call("containers.create", r))
         /\ IF r = OK
            THEN container' = "Container" /\ pending' = pending
                 /\ pc' = "get_archive"
            ELSE container' = container /\ pending' = "Exception"
                 /\ pc' = "finally"
    /\ UNCHANGED <<client, imageLocal, endpoint, raised, response>>
    /\ UNCHANGED <<strm, file_obj, nread, members, idx, tree, result>>

\* line 63: the export stream is handed out, nothing is read yet
FilesGetArchive ==
    /\ pc = "get_archive"
    /\ \E r \in ArchiveOutcomes :
         /\ calls' = Append(calls, Call("get_archive", r))
         /\ IF r = OK
            THEN /\ \E a \in Archives : strm' = a
                 /\ pending' = pending
                 /\ pc' = "read"
            ELSE strm' = strm /\ pending' = "Exception" /\ pc' = "finally"
    /\ UNCHANGED <<client, imageLocal, endpoint, raised, response>>
    /\ UNCHANGED <<container, file_obj, nread, members, idx, tree, result>>

\* lines 66-67, one iteration: a chunk carrying the next k members is
\* written to the BytesIO
FilesReadChunk ==
    /\ pc = "read"
    /\ strm # <<>>
    /\ \E k \in 1..Len(strm) :
         /\ file_obj' = file_obj \o SubSeq(strm, 1, k)
         /\ strm' = SubSeq(strm, k + 1, Len(strm))
    /\ nread' = nread + 1
    /\ UNCHANGED <<client, imageLocal, pc, endpoint, calls, raised, response>>
    /\ UNCHANGED <<container, members, idx, tree, result, pending>>

\* line 66: the stream raises before its end
FilesReadFail ==
    /\ pc = "read"
    /\ strm # <<>>
    /\ pending' = "Exception"
    /\ pc' = "finally"
    /\ strm' = <<>> /\ file_obj' = <<>> /\ nread' = 0
    /\ UNCHANGED <<client, imageLocal, endpoint, calls, raised, response>>
    /\ UNCHANGED <<container, members, idx, tree, result>>

\* lines 66-70: the stream has ended; seek(0) and tree = {}
FilesEndOfStream ==
    /\ pc = "read"
    /\ strm = <<>>
    /\ nread' = 0
    /\ tree' = <<>>
    /\ pc' = "open"
    /\ UNCHANGED <<client, imageLocal, endpoint, calls, raised, response>>
    /\ UNCHANGED <<container, strm, file_obj, members, idx, result, pending>>

\* lines 72-73: tarfile.open and tar.getmembers() decode the whole buffer,
\* or raise on a header they cannot decode
FilesOpen ==
    /\ pc = "open"
    /\ \/ /\ members' = file_obj
          /\ file_obj' = file_obj
          /\ idx' = 0
          /\ pending' = pending
          /\ pc' = "fold"
       \/ /\ members' = members
          /\ file_obj' = <<>>
          /\ idx' = idx
          /\ pending' = "Exception"
          /\ pc' = "finally"
    /\ UNCHANGED <<client, imageLocal, endpoint, calls, raised, response>>
    /\ UNCHANGED <<container, strm, nread, tree, result>>

\* lines 73-91, one iteration of the loop over the members
FilesFold ==
    /\ pc = "fold"
    /\ idx < Len(members)
    /\ tree' = FoldMember(tree, members[idx + 1], max_depth)
    /\ idx' = idx + 1
    /\ UNCHANGED <<client, imageLocal, pc, endpoint, calls, raised, response>>
    /\ UNCHANGED <<container, strm, file_obj, nread, members, result, pending>>

\* lines 93-105
FilesSerialize ==
    /\ pc = "fold"
    /\ idx = Len(members)
    /\ result' = dict_to_nodes(tree)
    /\ pending' = "return"
    /\ pc' = "finally"
    /\ UNCHANGED <<client, imageLocal, endpoint, calls, raised, response>>
    /\ UNCHANGED <<container, strm, file_obj, nread, members, idx, tree>>

\* line 110: the finally clause removes the container it holds
RemovesContainer(c) == c # "None"

\* FinallyOutcome with the failure of the removal left to propagate
FinallyOutcomeEscalating(p, r) ==
    IF r # OK THEN GenericExc
    ELSE IF p = "return" THEN NoExc ELSE GenericExc

\* lines 111-114: what leaves the call after container.remove() returned
\* r; the bare except swallows a failure of the removal
FinallyOutcome(p, r) == IF p = "return" THEN NoExc ELSE GenericExc

RemoveOutcomes == {OK, ServerError}

\* lines 109-114
FilesFinally ==
    /\ pc = "finally"
    /\ IF RemovesContainer(container)
       THEN \E r \in RemoveOutcomes :
              /\ calls' = Append(calls, Call("container.remove", r))
              /\ raised' = FinallyOutcome(pending, r)
       ELSE /\ calls' = calls
            /\ raised' = FinallyOutcome(pending, OK)
    /\ pc' = IF raised' = NoExc THEN "return" ELSE "except"
    /\ file_obj' = <<>> /\ members' = <<>> /\ idx' = 0 /\ tree' = <<>>
    /\ UNCHANGED <<client, imageLocal, endpoint, response>>
    /\ UNCHANGED <<container, strm, nread, result, pending>>

(***************************************************************************)
(* The request handlers of src/main.py                                     *)
(***************************************************************************)
AnalyzerOutcomes(ep) ==
    IF ep = "/optimize" THEN {"ok", "error", "raise"} ELSE {"ok", "raise"}

\* the call to the analyzer after get_image_metadata returned; /optimize
\* raises HTTPException(500) itself when the answer holds "error"
HandlerAnalyzer ==
    /\ pc = "analyzer"
    /\ \E r \in AnalyzerOutcomes(endpoint) :
         IF r = "ok" THEN raised' = raised /\ pc' = "return"
         ELSE IF r = "error"
              THEN raised' = HTTPException(500) /\ pc' = "except"
         ELSE raised' = GenericExc /\ pc' = "except"
    /\ UNCHANGED <<client, imageLocal, endpoint, calls, response>>
    /\ UNCHANGED filesVars

\* the handler returns its response model
HandlerReturn ==
    /\ pc = "return"
    /\ response' = 200
    /\ pc' = "responded"
    /\ UNCHANGED <<client, imageLocal, endpoint, calls, raised>>
    /\ UNCHANGED filesVars

\* the handlers that re-raise an HTTPException before "except Exception"
ReraisesHTTPException(ep) == ep \in {"/analyze", "/optimize"}

\* the except clauses of a handler applied to what its try block raised
HandlerStatus(ep, e) ==
    IF e.cls = "HTTPException" /\ ReraisesHTTPException(ep)
    THEN e.status
    ELSE 500

HandlerExcept ==
    /\ pc = "except"
    /\ response' = HandlerStatus(endpoint, raised)
    /\ pc' = "responded"
    /\ UNCHANGED <<client, imageLocal, endpoint, calls, raised>>
    /\ UNCHANGED filesVars

Next ==
    \/ Request
    \/ MetadataEnter
    \/ MetadataGet
    \/ MetadataPull
    \/ MetadataGetAgain
    \/ MetadataHistory
    \/ FilesEnter
    \/ FilesCreate
    \/ FilesGetArchive
    \/ FilesReadChunk
    \/ FilesReadFail
    \/ FilesEndOfStream
    \/ FilesOpen
    \/ FilesFold
    \/ FilesSerialize
    \/ FilesFinally
    \/ HandlerAnalyzer
    \/ HandlerReturn
    \/ HandlerExcept

Spec == Init /\ [][Next]_vars

(***************************************************************************)
(* Properties                                                              *)
(***************************************************************************)
\* the nodes of a returned list, each with its path from the top level
RECURSIVE NodeSet(_, _)
NodeSet(nodes, prefix) ==
    UNION { {[path |-> Append(prefix, nodes[k].name), node |-> nodes[k]]}
            \cup (IF nodes[k].children = None THEN {}
                  ELSE NodeSet(TheList(nodes[k].children),
                               Append(prefix, nodes[k].name)))
            : k \in 1..Len(nodes) }

\* the top-level list and every children list
RECURSIVE SiblingLists(_)
SiblingLists(nodes) ==
    {nodes} \cup
    UNION { IF nodes[k].children = None THEN {}
            ELSE SiblingLists(TheList(nodes[k].children))
            : k \in 1..Len(nodes) }

\* dict_to_nodes(tree) has been evaluated and get_image_files is about to
\* return it
Returning == pc = "finally" /\ pending = "return"

\* a member that names a path below the root
NamesPath(m) == path_parts(m) # <<>> /\ path_parts(m) # << <<>> >>

WithinDepth(m) == Len(path_parts(m)) <= max_depth

Accepted(m) == NamesPath(m) /\ WithinDepth(m)

Kind(m) == IF m.isdir THEN "directory" ELSE "file"

\* the tree folded from a sequence of members, none of them skipped
RECURSIVE Build(_)
Build(ms) ==
    IF ms = <<>> THEN <<>>
    ELSE LET m == ms[Len(ms)]
         IN  InsertPath(Build(SubSeq(ms, 1, Len(ms) - 1)), m, path_parts(m), 1)

Count(op) == Cardinality({i \in 1..Len(calls) : calls[i].op = op})

ContainerCreated ==
    \E i \in 1..Len(calls) : calls[i] = Call("containers.create", OK)

\* C1: every node used as a non-terminal path segment of an accepted entry
\* is returned as a directory, and no returned file has children.
C1_NonTerminalIsDirectory ==
    Returning =>
        /\ \A i \in 1..Len(members) :
             Accepted(members[i]) =>
               \A j \in 1..(Len(path_parts(members[i])) - 1) :
                 \E pn \in NodeSet(result, <<>>) :
                    /\ pn.path = SubSeq(path_parts(members[i]), 1, j)
                    /\ pn.node.type = "directory"
        /\ \A pn \in NodeSet(result, <<>>) :
             pn.node.type = "file" =>
               \/ pn.node.children = None
               \/ TheList(pn.node.children) = <<>>

\* C2: the node of a path named by several accepted entries has the kind
\* and the size of the last of them in archive order.
C2_LastWriteWins ==
    Returning =>
        \A i \in 1..Len(members) :
          Accepted(members[i]) =>
            LET same == {j \in 1..Len(members) :
                           path_parts(members[j]) = path_parts(members[i])}
                last == CHOOSE j \in same : \A k \in same : k <= j
            IN  \E pn \in NodeSet(result, <<>>) :
                   /\ pn.path = path_parts(members[i])
                   /\ pn.node.type = Kind(members[last])
                   /\ pn.node.size = members[last].size

\* C3: every returned directory has children present (a list, possibly
\* empty) and every returned file has children absent.
C3_ChildrenPresence ==
    Returning =>
        \A pn \in NodeSet(result, <<>>) :
           /\ pn.node.type = "directory" => pn.node.children # None
           /\ pn.node.type = "file" => pn.node.children = None

\* C4: an entry of more than max_depth segments is omitted entirely: the
\* tree is at every moment the tree folded from the entries within the
\* limit alone; every such entry is in the result; and no returned node
\* lies deeper than max_depth.
C4_DepthLimit ==
    /\ pc = "fold" =>
         tree = Build(SelectSeq(SubSeq(members, 1, idx),
                                LAMBDA m : Accepted(m)))
    /\ Returning =>
         /\ result = dict_to_nodes(Build(SelectSeq(members,
                                                   LAMBDA m : Accepted(m))))
         /\ \A i \in 1..Len(members) :
              Accepted(members[i]) =>
                \E pn \in NodeSet(result, <<>>) :
                   pn.path = path_parts(members[i])
         /\ \A pn \in NodeSet(result, <<>>) : Len(pn.path) <= max_depth

\* an entry beyond the limit has been folded next to entries within it
C4_Witness ==
    /\ Returning
    /\ \E i \in 1..Len(members) :
         NamesPath(members[i]) /\ ~WithinDepth(members[i])
    /\ \E i \in 1..Len(members) :
         Len(path_parts(members[i])) = max_depth
    /\ \E pn \in NodeSet(result, <<>>) : Len(pn.path) = max_depth

\* C5: every list of siblings returned has its directories before its
\* files, each kind in ascending case-sensitive order of name, and no name
\* twice.
C5_SiblingOrder ==
    Returning =>
        \A l \in SiblingLists(result) :
          \A i, j \in 1..Len(l) :
            i < j =>
              /\ ~(l[i].type = "file" /\ l[j].type = "directory")
              /\ l[i].type = l[j].type => StrLess(l[i].name, l[j].name)
              /\ l[i].name # l[j].name

\* the dict held a file before a directory, and the list returned is in
\* another order than the dict
C5_Witness ==
    /\ Returning
    /\ Len(tree) >= 2
    /\ tree[1].type = "file"
    /\ tree[2].type = "directory"
    /\ result[1].name = tree[2].name
    /\ \E i \in 1..Len(result) : result[i].name = <<"B">>

\* C6: once the container has been created, its removal is attempted
\* exactly once before the call is left, not before the try block is
\* over, and what leaves the call is what the try block returned or
\* raised, whatever the removal did.
C6_ContainerRemoved ==
    ContainerCreated =>
        /\ pc \in {"get_archive", "read", "open", "fold", "finally"} =>
             Count("container.remove") = 0
        /\ pc \in {"return", "except", "responded"} =>
             /\ Count("container.remove") = 1
             /\ pending = "return" => raised = NoExc
             /\ pending = "Exception" => raised = GenericExc

\* the removal failed after the tree had been returned by the try block
C6_Witness ==
    /\ ContainerCreated
    /\ pc = "return"
    /\ pending = "return"
    /\ calls[Len(calls)] = Call("container.remove", ServerError)

\* C7: when the local lookup reports not-found and the pull fails with
\* image-not-found or with an API error of status 404, get_image_metadata
\* raises HTTPException(404); a pull follows only a lookup that reported
\* not-found, and the image is inspected only after a lookup found it.
C7_NotFoundAfterPull ==
    /\ \A i \in 1..Len(calls) :
         calls[i].op = "images.pull" =>
           i > 1 /\ calls[i - 1] = Call("images.get", ImageNotFound)
    /\ \A i \in 1..Len(calls) :
         calls[i].op = "image.history" =>
           i > 1 /\ calls[i - 1] = Call("images.get", OK)
    /\ ( /\ pc \in {"except", "responded"}
         /\ Len(calls) = 2
         /\ calls[1] = Call("images.get", ImageNotFound)
         /\ calls[2].op = "images.pull"
         /\ calls[2].res \in {ImageNotFound, NotFound} )
       => raised = HTTPException(404)

\* the pull failed with an API error of status 404 after the lookup had
\* reported not-found
C7_Witness ==
    /\ pc = "except"
    /\ calls = <<Call("images.get", ImageNotFound),
                 Call("images.pull", NotFound)>>
    /\ raised = HTTPException(404)

\* the runtime could not be reached: no client, or a call to the daemon
\* failed with something else than a 404
RuntimeUnreachable ==
    \/ client = "None"
    \/ \E i \in 1..Len(calls) :
         /\ calls[i].op # "container.remove"
         /\ calls[i].res \in {ServerError, ConnError}

\* C8: when the runtime cannot be reached, the manager raises a dedicated
\* runtime-unavailable error and the handler answers 503.
C8_RuntimeUnavailable ==
    RuntimeUnreachable =>
        /\ pc = "except" => raised.cls = "RuntimeUnavailableError"
        /\ pc = "responded" => response = 503

\* C9: when the export came in several chunks, decoding has begun by the
\* time the last chunk has been read.
C9_IncrementalDecoding ==
    (pc = "read" /\ strm = <<>> /\ nread >= 2) => members # <<>>

\* C10: a handler that looks up an image answers 404 when
\* get_image_metadata raised HTTPException(404).
C10_NotFoundSurfaced ==
    ( /\ pc = "responded"
      /\ endpoint \in MetadataEndpoints
      /\ raised = HTTPException(404) )
    => response = 404

\* the segments of a member name: the name split on "/", without its
\* leading empty and "." segments and without its trailing empty segments
RECURSIVE DropLeadingRoot(_)
DropLeadingRoot(segs) ==
    IF segs # <<>> /\ Head(segs) \in {<<>>, <<".">>}
    THEN DropLeadingRoot(Tail(segs))
    ELSE segs

RECURSIVE DropTrailingEmpty(_)
DropTrailingEmpty(segs) ==
    IF segs # <<>> /\ segs[Len(segs)] = <<>>
    THEN DropTrailingEmpty(SubSeq(segs, 1, Len(segs) - 1))
    ELSE segs

NameSegments(name) == DropTrailingEmpty(DropLeadingRoot(Split(name)))

\* C11: a member is skipped exactly when its name has no segments; every
\* other member within max_depth has a node at the path of its segments,
\* each node named by the segment unchanged; every returned node lies on
\* the segment path of some member; and members of different segment
\* sequences are folded into different nodes.
C11_SegmentsUnchanged ==
    Returning =>
        /\ \A i \in 1..Len(members) :
             IsRootMember(members[i]) <=>
               NameSegments(members[i].name) = <<>>
        /\ \A i \in 1..Len(members) :
             LET segs == NameSegments(members[i].name)
             IN  (segs # <<>> /\ Len(segs) <= max_depth) =>
                   \E pn \in NodeSet(result, <<>>) : pn.path = segs
        /\ \A pn \in NodeSet(result, <<>>) :
             \E i \in 1..Len(members) :
               LET segs == NameSegments(members[i].name)
               IN  /\ Len(pn.path) <= Len(segs)
                   /\ pn.path = SubSeq(segs, 1, Len(pn.path))
        /\ \A i, j \in 1..Len(members) :
             ( /\ ~IsRootMember(members[i])
               /\ ~IsRootMember(members[j])
               /\ NameSegments(members[i].name)
                    # NameSegments(members[j].name) )
             => path_parts(members[i]) # path_parts(members[j])

====
